---------------------------- MODULE Spec2Model ----------------------------
(***************************************************************************)
(* Model of xor/xortest.c: the correctness check of the byte-buffer XOR    *)
(* primitive xorinto_gpr (main) and the cycles-per-byte sweep (bench).     *)
(*                                                                         *)
(* xorinto_gpr itself is declared in print-impl.h, which is not part of    *)
(* the sources at hand; XorInto below follows its documented contract.     *)
(***************************************************************************)
EXTENDS Integers, Sequences, FiniteSets

(***************************************************************************)
(* Program constants.                                                      *)
(***************************************************************************)
N == 31
REPS == 65536
BufCap == 200
SweepFirst == 1
SweepEnd == 97
BreakEvery == 8

(***************************************************************************)
(* Bounds of the model.                                                    *)
(***************************************************************************)
\* capacity of the buffers the primitive is exercised on in SpecXor
MaxLen == 2

Byte == 0 .. 255

\* byte values the buffers of SpecXor are filled from
ByteVals == {0, 1, 67, 128, 255}

\* contents an uninitialised automatic array may hold
Garbage == {0, 170}

(***************************************************************************)
(* uint8_t arithmetic.                                                     *)
(***************************************************************************)
\* conversion of an int to uint8_t on assignment
ToU8(x) == x % 256

RECURSIVE XorBits(_, _, _)
XorBits(x, y, k) ==
  IF k = 0 THEN 0
  ELSE (((x % 2) + (y % 2)) % 2) + 2 * XorBits(x \div 2, y \div 2, k - 1)

\* the C operator ^ on two promoted uint8_t operands
BXor(x, y) == XorBits(x, y, 8)

BufLen(buf) == Cardinality(DOMAIN buf)

Min3(x, y, z) ==
  LET m == IF x < y THEN x ELSE y IN IF m < z THEN m ELSE z

\* the caller obligation of xorinto: n bytes are available in all three
InBounds(dst, a, b, n) == n <= Min3(BufLen(dst), BufLen(a), BufLen(b))

\* a variant of the primitive that ORs the sources: a | b = (a + b + (a ^ b)) / 2
XorIntoOr(dst, a, b, n) ==
  [k \in DOMAIN dst |->
     IF k < n /\ k \in DOMAIN a /\ k \in DOMAIN b
     THEN (a[k] + b[k] + BXor(a[k], b[k])) \div 2
     ELSE dst[k]]

\* a variant of the primitive that adds the sources modulo 256
XorIntoAdd(dst, a, b, n) ==
  [k \in DOMAIN dst |->
     IF k < n /\ k \in DOMAIN a /\ k \in DOMAIN b
     THEN (a[k] + b[k]) % 256
     ELSE dst[k]]

\* a variant of the primitive that rounds n up to the whole buffer
XorIntoWhole(dst, a, b, n) ==
  [k \in DOMAIN dst |->
     IF k \in DOMAIN a /\ k \in DOMAIN b
     THEN BXor(a[k], b[k])
     ELSE dst[k]]

\* xorinto(dst, a, b, n): dst[k] = a[k] ^ b[k] for k < n, n bytes written
XorInto(dst, a, b, n) ==
  [k \in DOMAIN dst |->
     IF k < n /\ k \in DOMAIN a /\ k \in DOMAIN b
     THEN BXor(a[k], b[k])
     ELSE dst[k]]

(***************************************************************************)
(* uint64_t arithmetic, on four 16-bit limbs, least significant first.     *)
(***************************************************************************)
Limb == 2 ^ 16

IsU64(x) == /\ DOMAIN x = 1 .. 4
            /\ \A k \in 1 .. 4 : x[k] \in 0 .. Limb - 1

Zero64 == <<0, 0, 0, 0>>

\* the difference of two readings as a mathematical integer, limb by limb
Sub64Signed(x, y) ==
  LET d1 == x[1] - y[1]
      w1 == IF d1 < 0 THEN 1 ELSE 0
      d2 == x[2] - y[2] - w1
      w2 == IF d2 < 0 THEN 1 ELSE 0
      d3 == x[3] - y[3] - w2
      w3 == IF d3 < 0 THEN 1 ELSE 0
      d4 == x[4] - y[4] - w3
  IN  <<d1 + w1 * Limb, d2 + w2 * Limb, d3 + w3 * Limb, d4>>

\* x - y on uint64_t: the difference modulo 2^64
Sub64(x, y) ==
  LET d1 == x[1] - y[1]
      w1 == IF d1 < 0 THEN 1 ELSE 0
      d2 == x[2] - y[2] - w1
      w2 == IF d2 < 0 THEN 1 ELSE 0
      d3 == x[3] - y[3] - w2
      w3 == IF d3 < 0 THEN 1 ELSE 0
      d4 == x[4] - y[4] - w3
      w4 == IF d4 < 0 THEN 1 ELSE 0
  IN  <<d1 + w1 * Limb, d2 + w2 * Limb, d3 + w3 * Limb, d4 + w4 * Limb>>

\* readings the free-running cycle counter may return
Readings ==
  { Zero64,
    <<5, 0, 0, 0>>,
    <<0, 3, 0, 0>>,
    <<0, 0, 0, 32768>>,
    <<65535, 65535, 65535, 65535>> }

\* __builtin_readcyclecounter(): some reading of the counter
cycles == Readings

(***************************************************************************)
(* State.                                                                  *)
(***************************************************************************)
VARIABLES
  pc,        \* position of the program
  impl,      \* deviation of the linked xorinto_gpr from its contract
  s1, s2, dst, i,                      \* main's locals
  bs1, bs2, bdst, n, start, cpbNum, cpbDen,  \* bench's locals
  endc,      \* the reading that closed the current timing window
  out,       \* standard output, one record per printf
  status,    \* exit status of the process, -1 while it runs
  calls,     \* xorinto calls made by bench so far
  winCalls,  \* xorinto calls made since the last start reading
  callN,     \* the size passed to the last xorinto call
  nStart, nEnd, nSample,  \* start readings, end readings, samples taken
  xa, xb, xd0, xr, xc0, xc, xn   \* SpecXor: the primitive on drawn inputs

vars == <<pc, impl, s1, s2, dst, i, bs1, bs2, bdst, n, start, cpbNum, cpbDen,
          endc, out, status, calls, winCalls, callN, nStart, nEnd, nSample,
          xa, xb, xd0, xr, xc0, xc, xn>>

mainVars == <<s1, s2, dst, i>>
benchVars == <<bs1, bs2, bdst, n, start, cpbNum, cpbDen, endc>>
countVars == <<calls, winCalls, callN, nStart, nEnd, nSample>>
xorVars == <<xa, xb, xd0, xr, xc0, xc, xn>>

Fill(len, v) == [k \in 0 .. len - 1 |-> v]

\* uint8_t s1[N], s2[N], dst[N]: automatic arrays without initialiser
MainBuf == {Fill(N, g) : g \in Garbage}

\* a bench buffer declared with main's length
BenchBufN == Fill(N, 0)

\* uint8_t s1[200] = {0}, s2[200] = {0}, dst[200] = {0}
BenchBuf == Fill(BufCap, 0)

\* an xorinto_gpr that honours its contract: no byte deviates
Conforming == Fill(BufCap, 0)

\* byte indices at which a linked xorinto_gpr may deviate, and the bits it
\* gets wrong there: the lowest bit of the first byte, the highest of the last
FaultIdx == {0, 30}
FaultMask(k) == IF k = 0 THEN 1 ELSE 128

\* the linked xorinto_gpr, as the deviation of each byte it writes
Impls ==
  {[k \in 0 .. BufCap - 1 |-> IF k \in S THEN FaultMask(k) ELSE 0] :
     S \in SUBSET FaultIdx}

\* the result the linked xorinto_gpr leaves in the len bytes it writes
Linked(res, len) ==
  [k \in DOMAIN res |-> IF k < len THEN BXor(res[k], impl[k]) ELSE res[k]]

Diag(k, x, y, z) == [kind |-> "diag", idx |-> k, a |-> x, b |-> y, d |-> z]
Point(k) == [kind |-> "pt", idx |-> k, a |-> 0, b |-> 0, d |-> 0]
Break == [kind |-> "nl", idx |-> 0, a |-> 0, b |-> 0, d |-> 0]

IdleXor == /\ xa = Fill(0, 0) /\ xb = Fill(0, 0) /\ xd0 = Fill(0, 0)
           /\ xr = Fill(0, 0) /\ xc0 = Fill(0, 0) /\ xc = Fill(0, 0)
           /\ xn = 0

InitProgram ==
  /\ pc = "m_init"
  /\ s1 \in MainBuf /\ s2 \in MainBuf /\ dst \in MainBuf
  /\ i = 0
  /\ bs1 = Fill(0, 0) /\ bs2 = Fill(0, 0) /\ bdst = Fill(0, 0)
  /\ n = 0 /\ start = Zero64 /\ endc = Zero64
  /\ cpbNum = Zero64 /\ cpbDen = 0
  /\ out = <<>>
  /\ status = -1
  /\ calls = 0 /\ winCalls = 0 /\ callN = 0
  /\ nStart = 0 /\ nEnd = 0 /\ nSample = 0
  /\ IdleXor

Init == InitProgram /\ impl = Conforming

InitFault == InitProgram /\ impl \in Impls

(***************************************************************************)
(* main                                                                    *)
(***************************************************************************)
\* the value stored by s1[i] = 67 * i without the conversion to uint8_t
S1ValWide(k) == 67 * k

\* s1[i] = 67 * i
S1Val(k) == ToU8(67 * k)

\* s2[i] = i
S2Val(k) == ToU8(k)

\* for (int i = 0; i < N; i++) { s1[i] = 67 * i; s2[i] = i; }
MainInit ==
  /\ pc = "m_init"
  /\ IF i < N
     THEN /\ s1' = [s1 EXCEPT ![i] = S1Val(i)]
          /\ s2' = [s2 EXCEPT ![i] = S2Val(i)]
          /\ i' = i + 1
          /\ pc' = pc
     ELSE /\ pc' = "m_xor"
          /\ UNCHANGED <<s1, s2, i>>
  /\ UNCHANGED <<impl, dst, benchVars, out, status, countVars, xorVars>>

\* xorinto_gpr(dst, s1, s2, N);  then i = 0 of the checking loop
MainXor ==
  /\ pc = "m_xor"
  /\ IF InBounds(dst, s1, s2, N)
     THEN /\ dst' = Linked(XorInto(dst, s1, s2, N), N)
          /\ pc' = "m_check"
     ELSE /\ dst' = dst
          /\ pc' = "undefined"
  /\ i' = 0
  /\ UNCHANGED <<impl, s1, s2, benchVars, out, status, countVars, xorVars>>

\* a checking loop that stops at the first mismatch
MainCheckFailFast ==
  /\ pc = "m_check"
  /\ IF i < N
     THEN IF BXor(s1[i], s2[i]) # dst[i]
          THEN /\ out' = Append(out, Diag(i, s1[i], s2[i], dst[i]))
               /\ i' = i
               /\ pc' = "b_decl"
          ELSE /\ out' = out
               /\ i' = i + 1
               /\ pc' = pc
     ELSE /\ pc' = "b_decl"
          /\ UNCHANGED <<out, i>>
  /\ UNCHANGED <<impl, s1, s2, dst, benchVars, status, countVars, xorVars>>

\* for (int i = 0; i < N; i++) if ((s1[i] ^ s2[i]) != dst[i]) printf(...)
MainCheck ==
  /\ pc = "m_check"
  /\ IF i < N
     THEN /\ IF BXor(s1[i], s2[i]) # dst[i]
             THEN out' = Append(out, Diag(i, s1[i], s2[i], dst[i]))
             ELSE out' = out
          /\ i' = i + 1
          /\ pc' = pc
     ELSE /\ pc' = "b_decl"
          /\ UNCHANGED <<out, i>>
  /\ UNCHANGED <<impl, s1, s2, dst, benchVars, status, countVars, xorVars>>

\* main returns by reaching its closing brace, with a status that
\* depends on the diagnostics printed
ExitStatusByDiag ==
  IF \E p \in 1 .. Len(out) : out[p].kind = "diag" THEN 1 ELSE 0

\* main returns by reaching its closing brace: status 0
ExitStatus == 0

\* } of main, after bench() has returned
MainReturn ==
  /\ pc = "m_ret"
  /\ status' = ExitStatus
  /\ pc' = "exit"
  /\ UNCHANGED <<impl, mainVars, benchVars, out, countVars, xorVars>>

(***************************************************************************)
(* bench                                                                   *)
(***************************************************************************)
\* iterations of  for (r = lo; r <= hi; r++)
RepCountInclusive(lo, hi) == IF lo <= hi THEN hi - lo + 1 ELSE 0

\* iterations of  for (r = lo; r < hi; r++)
RepCount(lo, hi) == IF lo < hi THEN hi - lo ELSE 0

\* a line break after the sizes one short of a multiple of 8
NeedsBreakEarly(k) == (k % BreakEvery) = BreakEvery - 1

\* ((n) % 8) == 0
NeedsBreak(k) == (k % BreakEvery) = 0

\* the declarations of bench, and n = 1 of the sweep
BenchDecl ==
  /\ pc = "b_decl"
  /\ bs1' = BenchBuf /\ bs2' = BenchBuf /\ bdst' = BenchBuf
  /\ n' = SweepFirst
  /\ pc' = "b_loop"
  /\ UNCHANGED <<impl, mainVars, start, cpbNum, cpbDen, endc, out, status,
                 countVars, xorVars>>

\* n < 97, then  uint64_t start = cycles();
BenchLoop ==
  /\ pc = "b_loop"
  /\ IF n < SweepEnd
     THEN /\ start' \in cycles
          /\ nStart' = nStart + 1
          /\ winCalls' = 0
          /\ pc' = "b_reps"
     ELSE /\ pc' = "m_ret"
          /\ UNCHANGED <<start, nStart, winCalls>>
  /\ UNCHANGED <<impl, mainVars, bs1, bs2, bdst, n, cpbNum, cpbDen, endc,
                 out, status, calls, callN, nEnd, nSample, xorVars>>

\* for (r = 0; r < REPS; r++) xorinto_gpr(dst, s1, s2, n);
\* every call recomputes the same n bytes from the unchanged sources, so
\* the buffer after the loop is the buffer after one call
BenchReps ==
  /\ pc = "b_reps"
  /\ IF InBounds(bdst, bs1, bs2, n)
     THEN /\ bdst' = Linked(XorInto(bdst, bs1, bs2, n), n)
          /\ calls' = calls + RepCount(0, REPS)
          /\ winCalls' = winCalls + RepCount(0, REPS)
          /\ callN' = n
          /\ pc' = "b_end"
     ELSE /\ pc' = "undefined"
          /\ UNCHANGED <<bdst, calls, winCalls, callN>>
  /\ UNCHANGED <<impl, mainVars, bs1, bs2, n, start, cpbNum, cpbDen, endc,
                 out, status, nStart, nEnd, nSample, xorVars>>

\* double cpb = cycles() - start;
\* cpb is kept as the fraction cpbNum / cpbDen; its rounding to a double is
\* not represented
BenchEnd ==
  /\ pc = "b_end"
  /\ \E c \in cycles :
       /\ endc' = c
       /\ cpbNum' = Sub64(c, start)
  /\ cpbDen' = 1
  /\ nEnd' = nEnd + 1
  /\ pc' = "b_div"
  /\ UNCHANGED <<impl, mainVars, bs1, bs2, bdst, n, start, out, status,
                 calls, winCalls, callN, nStart, nSample, xorVars>>

\* cpb /= (REPS * n);
BenchDiv ==
  /\ pc = "b_div"
  /\ cpbDen' = cpbDen * (REPS * n)
  /\ nSample' = nSample + 1
  /\ pc' = "b_print"
  /\ UNCHANGED <<impl, mainVars, bs1, bs2, bdst, n, start, cpbNum, endc, out,
                 status, calls, winCalls, callN, nStart, nEnd, xorVars>>

\* printf("%3llu, %5.2f  ", n, cpb);
BenchPrint ==
  /\ pc = "b_print"
  /\ out' = Append(out, Point(n))
  /\ pc' = "b_nl"
  /\ UNCHANGED <<impl, mainVars, benchVars, status, countVars, xorVars>>

\* if (((n) % 8) == 0) printf("\n");  then the end of the loop body, where
\* start and cpb go out of scope, and n++
BenchBreak ==
  /\ pc = "b_nl"
  /\ IF NeedsBreak(n) THEN out' = Append(out, Break) ELSE out' = out
  /\ n' = n + 1
  /\ start' = Zero64 /\ endc' = Zero64 /\ cpbNum' = Zero64 /\ cpbDen' = 0
  /\ pc' = "b_loop"
  /\ UNCHANGED <<impl, mainVars, bs1, bs2, bdst, status, countVars, xorVars>>

Next ==
  \/ MainInit
  \/ MainXor
  \/ MainCheck
  \/ BenchDecl
  \/ BenchLoop
  \/ BenchReps
  \/ BenchEnd
  \/ BenchDiv
  \/ BenchPrint
  \/ BenchBreak
  \/ MainReturn

\* the program linked with an xorinto_gpr that honours its contract
Spec == Init /\ [][Next]_vars

\* the program linked with an xorinto_gpr that may deviate
SpecFault == InitFault /\ [][Next]_vars

\* a single-threaded process keeps executing until it exits
FairSpecFault == InitFault /\ [][Next]_vars /\ WF_vars(Next)

(***************************************************************************)
(* The primitive on inputs drawn from bounded sets.                        *)
(***************************************************************************)
IdleProgram ==
  /\ impl = Conforming
  /\ s1 = Fill(0, 0) /\ s2 = Fill(0, 0) /\ dst = Fill(0, 0)
  /\ i = 0
  /\ bs1 = Fill(0, 0) /\ bs2 = Fill(0, 0) /\ bdst = Fill(0, 0)
  /\ n = 0 /\ start = Zero64 /\ endc = Zero64
  /\ cpbNum = Zero64 /\ cpbDen = 0
  /\ out = <<>>
  /\ status = -1
  /\ calls = 0 /\ winCalls = 0 /\ callN = 0
  /\ nStart = 0 /\ nEnd = 0 /\ nSample = 0

XorBuf == [0 .. MaxLen - 1 -> ByteVals]

InitXor ==
  /\ pc = "x_first"
  /\ IdleProgram
  /\ xn \in 0 .. MaxLen
  /\ xa \in XorBuf /\ xb \in XorBuf
  /\ xd0 \in {Fill(MaxLen, g) : g \in Garbage}
  /\ xc0 \in {Fill(MaxLen, g) : g \in Garbage}
  /\ xr = xd0
  /\ xc = xc0

\* xorinto(r, a, b, n)
XorFirst ==
  /\ pc = "x_first"
  /\ xr' = XorInto(xd0, xa, xb, xn)
  /\ pc' = "x_second"
  /\ UNCHANGED <<impl, mainVars, benchVars, out, status, countVars,
                 xa, xb, xd0, xc0, xc, xn>>

\* xorinto(c, r, b, n)
XorSecond ==
  /\ pc = "x_second"
  /\ xc' = XorInto(xc0, xr, xb, xn)
  /\ pc' = "x_done"
  /\ UNCHANGED <<impl, mainVars, benchVars, out, status, countVars,
                 xa, xb, xd0, xr, xc0, xn>>

NextXor == XorFirst \/ XorSecond

SpecXor == InitXor /\ [][NextXor]_vars

(***************************************************************************)
(* Properties.                                                             *)
(***************************************************************************)
\* bit b of the byte x
Bit(x, b) == (x \div (2 ^ b)) % 2

\* bit b of the exclusive or of the bytes x and y
XorBit(x, y, b) == IF Bit(x, b) = Bit(y, b) THEN 0 ELSE 1

\* the byte z is the exclusive or of the bytes x and y
IsXorOf(z, x, y) ==
  /\ z \in Byte
  /\ \A b \in 0 .. 7 : Bit(z, b) = XorBit(x, y, b)

\* C1: after xorinto(dst, a, b, n), for every index k < n the byte dst[k] is
\* the bit-by-bit exclusive or of a[k] and b[k], a value in 0..255.
C1_XorContract ==
  pc \in {"x_second", "x_done"} =>
    \A k \in 0 .. xn - 1 : IsXorOf(xr[k], xa[k], xb[k])

C1_Witness ==
  /\ pc = "x_second"
  /\ xn = MaxLen
  /\ xa[0] = 67 /\ xb[0] = 1 /\ xr[0] = 66
  /\ xa[MaxLen - 1] = 255 /\ xb[MaxLen - 1] = 128 /\ xr[MaxLen - 1] = 127

\* C2: xorinto is self-inverse: with r the result of xorinto(r, a, b, n) and
\* c the result of xorinto(c, r, b, n), c[k] = a[k] for every k < n.
C2_SelfInverse ==
  pc = "x_done" => \A k \in 0 .. xn - 1 : xc[k] = xa[k]

C2_Witness ==
  /\ pc = "x_done"
  /\ xn = MaxLen
  /\ xa[0] = 67 /\ xb[0] = 255 /\ xr[0] = 188 /\ xc[0] = 67
  /\ xc0[0] # 67

DiagCount(k) ==
  Cardinality({p \in 1 .. Len(out) : out[p].kind = "diag" /\ out[p].idx = k})

\* dst[k] differs from the exclusive or of s1[k] and s2[k]
Mismatch(k) == \E b \in 0 .. 7 : Bit(dst[k], b) # XorBit(s1[k], s2[k], b)

\* the number of indices the checking loop has compared
Scanned ==
  IF pc \in {"m_init", "m_xor"} THEN 0
  ELSE IF pc = "m_check" THEN i
  ELSE 31

\* C4: whatever xorinto left in dst, the check compares every index 0..30:
\* at any moment exactly one diagnostic has been printed for each index
\* already compared at which dst differs from s1 XOR s2, carrying that
\* index and the three bytes, and none for any other index; a mismatch
\* does not end the scan, which has compared all 31 indices when it ends.
C4_FullScan ==
  /\ \A k \in 0 .. 30 :
       DiagCount(k) = IF k < Scanned /\ Mismatch(k) THEN 1 ELSE 0
  /\ \A p \in 1 .. Len(out) :
       out[p].kind = "diag" =>
         /\ out[p].a = s1[out[p].idx]
         /\ out[p].b = s2[out[p].idx]
         /\ out[p].d = dst[out[p].idx]
  /\ pc \notin {"m_init", "m_xor", "m_check"} => i = 31

C4_Witness ==
  /\ pc = "b_decl"
  /\ Mismatch(0) /\ Mismatch(30) /\ ~Mismatch(15)
  /\ DiagCount(0) = 1 /\ DiagCount(30) = 1 /\ DiagCount(15) = 0

\* C5: in the program's scenario s1[k] = (67 * k) mod 256 and s2[k] = k for
\* k in 0..30; after the one call of xorinto over 31 bytes dst[k] is
\* s1[k] XOR s2[k] for every k, dst[1] = 0x42, and the check prints no
\* diagnostic.
C5_Scenario ==
  /\ pc \notin {"m_init"} =>
       \A k \in 0 .. 30 : s1[k] = (67 * k) % 256 /\ s2[k] = k
  /\ pc \notin {"m_init", "m_xor"} =>
       /\ \A k \in 0 .. 30 : IsXorOf(dst[k], (67 * k) % 256, k)
       /\ dst[1] = 66
  /\ \A p \in 1 .. Len(out) : out[p].kind # "diag"

C5_Witness ==
  /\ pc = "b_decl"
  /\ i = 31
  /\ s1[1] = 67 /\ s2[1] = 1 /\ dst[1] = 66
  /\ s1[30] = 218 /\ s2[30] = 30 /\ dst[30] = 196
  /\ out = <<>>

\* positions of out holding a record of the given kind
Places(kind) == {p \in 1 .. Len(out) : out[p].kind = kind}

\* C6: the sweep prints one data point per size, for the sizes 1, 2, ...
\* in ascending order, and a line break immediately after the data point
\* of every size that is a multiple of 8 and nowhere else; when bench
\* returns there are 96 data points and 12 line breaks.
C6_Grid ==
  /\ \A p \in Places("pt") :
       out[p].idx = Cardinality({q \in Places("pt") : q <= p})
  /\ \A p \in Places("nl") :
       /\ p > 1
       /\ out[p - 1].kind = "pt"
       /\ out[p - 1].idx % 8 = 0
  /\ \A p \in Places("pt") :
       out[p].idx % 8 = 0 =>
         \/ p < Len(out) /\ out[p + 1].kind = "nl"
         \/ p = Len(out) /\ pc = "b_nl"
  /\ pc \in {"m_ret", "exit"} =>
       /\ Cardinality(Places("pt")) = 96
       /\ Cardinality(Places("nl")) = 12

C6_Witness ==
  /\ pc = "exit"
  /\ Len(out) = 108
  /\ out[9].kind = "nl"
  /\ out[10] = Point(9)
  /\ out[107] = Point(96)
  /\ out[108].kind = "nl"

\* C7: the program always runs to completion with exit status zero: in
\* every run, whatever the check reported, the process eventually exits,
\* it does so only after the sweep has taken all 96 samples, its status is
\* zero, and it never aborts.
C7_RunsToExit ==
  /\ <>(pc = "exit")
  /\ [](pc = "exit" => status = 0 /\ nSample = 96 /\ n = 97)
  /\ [](pc # "undefined" /\ status \in {-1, 0})

C7_Witness ==
  /\ pc = "exit"
  /\ status = 0
  /\ Cardinality(Places("diag")) >= 2
  /\ nSample = 96

\* C8: for each size n in 1..96 exactly 65536 calls of xorinto, all with
\* that n, lie between one start reading and one end reading of the cycle
\* counter, and one sample is taken per size; timing windows never
\* overlap; the whole sweep makes 96 * 65536 calls in 96 windows.
C8_Windows ==
  /\ nEnd <= nStart /\ nStart <= nEnd + 1
  /\ (nStart = nEnd + 1) <=> pc \in {"b_reps", "b_end"}
  /\ pc = "b_reps" => winCalls = 0 /\ nStart = n /\ calls = 65536 * (n - 1)
  /\ pc \in {"b_end", "b_div", "b_print", "b_nl"} =>
       /\ winCalls = 65536
       /\ callN = n
       /\ calls = 65536 * n
       /\ nStart = n
  /\ pc \in {"b_div", "b_print", "b_nl"} => nEnd = n
  /\ pc = "b_div" => nSample = n - 1
  /\ pc \in {"b_print", "b_nl"} => nSample = n
  /\ pc \in {"b_reps", "b_end", "b_div", "b_print", "b_nl"} => n \in 1 .. 96
  /\ pc \in {"m_ret", "exit"} =>
       /\ calls = 96 * 65536
       /\ nStart = 96 /\ nEnd = 96 /\ nSample = 96

C8_Witness ==
  /\ pc = "exit"
  /\ calls = 6291456
  /\ nStart = 96 /\ nEnd = 96 /\ nSample = 96

\* x + y on uint64_t: the sum modulo 2^64
Add64(x, y) ==
  LET t1 == x[1] + y[1]
      t2 == x[2] + y[2] + (t1 \div Limb)
      t3 == x[3] + y[3] + (t2 \div Limb)
      t4 == x[4] + y[4] + (t3 \div Limb)
  IN  <<t1 % Limb, t2 % Limb, t3 % Limb, t4 % Limb>>

\* x < y on uint64_t
Less64(x, y) ==
  \E k \in 1 .. 4 : x[k] < y[k] /\ \A j \in k + 1 .. 4 : x[j] = y[j]

\* C9: for every size n in 1..96 the mean printed is total_cycles divided
\* by 65536 * n; the divisor is positive, and total_cycles is a value in
\* 0..2^64-1, the one that added to the start reading modulo 2^64 gives the
\* end reading, also when the counter wrapped in between.
C9_MeanCpb ==
  /\ pc \in {"b_div", "b_print", "b_nl"} =>
       /\ IsU64(cpbNum)
       /\ Add64(start, cpbNum) = endc
  /\ pc = "b_div" => cpbDen = 1
  /\ pc \in {"b_print", "b_nl"} =>
       /\ n \in 1 .. 96
       /\ cpbDen = 65536 * n
       /\ cpbDen > 0

C9_Witness ==
  /\ pc = "b_print"
  /\ n = 96
  /\ Less64(endc, start)
  /\ start = <<65535, 65535, 65535, 65535>>
  /\ endc = <<5, 0, 0, 0>>
  /\ cpbNum = <<6, 0, 0, 0>>
  /\ cpbDen = 6291456

\* C10: every call of xorinto the program makes has n no larger than the
\* length of each of its three buffers: the check passes n = 31 and three
\* buffers of 31 bytes, the sweep passes 1 <= n <= 96 and three buffers of
\* 200 bytes; no call is out of bounds.
C10_CallsInBounds ==
  /\ pc # "undefined"
  /\ pc = "m_xor" =>
       /\ BufLen(s1) = 31 /\ BufLen(s2) = 31 /\ BufLen(dst) = 31
       /\ N = 31
  /\ pc = "b_reps" =>
       /\ n >= 1 /\ n <= 96
       /\ BufLen(bs1) = 200 /\ BufLen(bs2) = 200 /\ BufLen(bdst) = 200
       /\ n <= BufLen(bs1) /\ n <= BufLen(bs2) /\ n <= BufLen(bdst)

C10_Witness ==
  /\ pc = "b_reps"
  /\ n = 96
  /\ BufLen(bdst) = 200

=============================================================================
